---- MODULE Spec2Model ----
(***************************************************************************)
(* Model of scripts/build.js of overlook-blm-rss: the three build scripts  *)
(* (rendered-DOM scrape, keyword API with HTML fallback, advanced-search   *)
(* API) that poll the BLM ePlanning search, normalise the rows, merge them *)
(* across terms and write the national and per-state RSS documents.        *)
(*                                                                         *)
(* JavaScript values are encoded as sequences of tokens:                   *)
(*   a string   is the sequence of its characters (a fixed literal such as *)
(*              the host name may be kept as one token);                   *)
(*   null / undefined is UNDEF;                                            *)
(*   a number   is <<"#num">> followed by its decimal digits.              *)
(***************************************************************************)
EXTENDS Integers, Sequences, FiniteSets

\* ------------------------------------------------------------ bounds
\* queries (or searches) in the configuration file
MaxQueries == 2
\* term retrievals one run performs
MaxTerms == 2
\* rows in the payload of a normalizeRows call
MaxRows == 1

\* ------------------------------------------------------------ JS values
UNDEF == <<"#undefined">>
Num(digits) == <<"#num">> \o digits
IsNum(v) == Len(v) > 0 /\ v[1] = "#num"

\* v ?? w
Nullish(v, w) == IF v = UNDEF THEN w ELSE v

\* Boolean(v): undefined, "", 0 are falsy
Truthy(v) == v # UNDEF /\ v # <<>> /\ v # Num(<<"0">>)

\* String(v) / `${v}` for a string or a number
JsString(v) == IF IsNum(v) THEN Tail(v) ELSE v

RECURSIVE TrimStart(_)
TrimStart(s) == IF s # <<>> /\ Head(s) = " " THEN TrimStart(Tail(s)) ELSE s

RECURSIVE TrimEnd(_)
TrimEnd(s) ==
  IF s # <<>> /\ s[Len(s)] = " " THEN TrimEnd(SubSeq(s, 1, Len(s) - 1)) ELSE s

\* String.prototype.trim
Trim(s) == TrimEnd(TrimStart(s))

RECURSIVE Join(_, _)
\* Array.prototype.join over an array of strings
Join(arr, sep) ==
  IF arr = <<>> THEN <<>>
  ELSE IF Len(arr) = 1 THEN arr[1]
  ELSE arr[1] \o sep \o Join(Tail(arr), sep)

RECURSIVE FilterTruthy(_)
\* arr.filter(Boolean)
FilterTruthy(arr) ==
  IF arr = <<>> THEN <<>>
  ELSE IF Truthy(Head(arr)) THEN <<Head(arr)>> \o FilterTruthy(Tail(arr))
  ELSE FilterTruthy(Tail(arr))

\* ------------------------------------------------------------ normalizeRows
\* Strings that hold a URL are tokenised the same way everywhere: the origin
\* is one token, "eplanning-ui" and "project" are one token each, every
\* other character is a token of its own.
Host == <<"https://eplanning.blm.gov">>
S510 == <<"5", "1", "0">>
\* `https://eplanning.blm.gov/eplanning-ui/project/${v}/510`
ProjectUrl(v) ==
  Host \o <<"/", "eplanning-ui", "/", "project", "/">> \o JsString(v) \o <<"/">> \o S510

TitlePrefix == <<"BLM Project ">>

\* An upstream row with every field the normaliser reads; a field the row
\* lacks is UNDEF.  `states` is the array p.states, <<>> when p.states is
\* missing or not an array (the code treats both as []).
EmptyRow ==
  [id |-> UNDEF, projectId |-> UNDEF, nepaId |-> UNDEF, documentId |-> UNDEF,
   projectID |-> UNDEF, nepaNumber |-> UNDEF,
   projectName |-> UNDEF, title |-> UNDEF, name |-> UNDEF,
   state |-> UNDEF, states |-> <<>>,
   leadOfficeName |-> UNDEF, office |-> UNDEF, fieldOffice |-> UNDEF,
   nepaStatus |-> UNDEF, nepaStage |-> UNDEF, status |-> UNDEF,
   nepaDocType |-> UNDEF, type |-> UNDEF, url |-> UNDEF]

\* const id = String(p.id ?? p.projectId ?? ... ?? '').trim()
ResolveId(p) ==
  Trim(JsString(
    Nullish(p.id, Nullish(p.projectId, Nullish(p.nepaId, Nullish(p.documentId,
      Nullish(p.projectID, Nullish(p.nepaNumber, <<>>))))))))

ResolveTitle(p, id) ==
  Trim(JsString(
    Nullish(p.projectName, Nullish(p.title, Nullish(p.name, TitlePrefix \o id)))))

ResolveState(p) ==
  LET states == IF Truthy(p.state) THEN <<JsString(p.state)>> ELSE p.states
      joined == Join(FilterTruthy(states), <<",", " ">>)
  IN IF joined = <<>> THEN UNDEF ELSE joined

\* A faulty ResolveUrl: the url is always synthesized from the resolved id.
ResolveUrlFromIdOnly(p, id) ==
  IF p.url # UNDEF THEN p.url
  ELSE IF Truthy(id) THEN ProjectUrl(id)
  ELSE UNDEF

ResolveUrl(p, id) ==
  IF p.url # UNDEF THEN p.url
  ELSE IF Truthy(p.projectId) THEN ProjectUrl(p.projectId)
  ELSE IF Truthy(id) THEN ProjectUrl(id)
  ELSE UNDEF

\* the object one row maps to, before the filter
NormalizeRow(p) ==
  LET id == ResolveId(p)
  IN [id |-> id,
      title |-> ResolveTitle(p, id),
      url |-> ResolveUrl(p, id),
      state |-> ResolveState(p),
      office |-> Nullish(p.leadOfficeName, Nullish(p.office, p.fieldOffice)),
      nepaStatus |-> Nullish(p.nepaStatus, Nullish(p.nepaStage, p.status)),
      nepaType |-> Nullish(p.nepaDocType, p.type),
      raw |-> p]

\* A faulty KeepRecord: the url is not tested.
KeepRecordIdOnly(x) == Truthy(x.id)

\* .filter(x => x.id && x.url)
KeepRecord(x) == Truthy(x.id) /\ Truthy(x.url)

RECURSIVE MapFilterRows(_)
MapFilterRows(rows) ==
  IF rows = <<>> THEN <<>>
  ELSE LET x == NormalizeRow(Head(rows))
       IN (IF KeepRecord(x) THEN <<x>> ELSE <<>>) \o MapFilterRows(Tail(rows))

\* A parsed JSON payload.  kind is "null", "array" or "object"; rows is the
\* payload itself when it is an array; each of items/content/results/data is
\* [arr |-> whether the field is an array, rows |-> its elements].
NotArr == [arr |-> FALSE, rows |-> <<>>]
Arr(rows) == [arr |-> TRUE, rows |-> rows]
NullData ==
  [kind |-> "null", rows |-> <<>>, items |-> NotArr, content |-> NotArr,
   results |-> NotArr, data |-> NotArr]
ObjectData ==
  [kind |-> "object", rows |-> <<>>, items |-> NotArr, content |-> NotArr,
   results |-> NotArr, data |-> NotArr]
ArrayData(rows) == [ObjectData EXCEPT !.kind = "array", !.rows = rows]

\* locating the row list
RowList(data) ==
  IF data.kind = "array" THEN data.rows
  ELSE IF data.items.arr THEN data.items.rows
  ELSE IF data.content.arr THEN data.content.rows
  ELSE IF data.results.arr THEN data.results.rows
  ELSE IF data.data.arr THEN data.data.rows
  ELSE <<>>

\* data.items on null raises a TypeError
normalizeRowsThrows(data) == data.kind = "null"

normalizeRows(data) == MapFilterRows(RowList(data))

\* ------------------------------------------------------------ anchors
\* An anchor of a page: href is the path of its href attribute as the
\* sequence of its "/"-separated segments ("/a/b" is <<a, b>>, each segment a
\* string), text is its text content.
Digits == {"0", "1", "2", "3", "4", "5", "6", "7", "8", "9"}
AllDigits(seg) == seg # <<>> /\ \A i \in 1..Len(seg) : seg[i] \in Digits
StartsWith(s, pre) == Len(s) >= Len(pre) /\ SubSeq(s, 1, Len(pre)) = pre

RECURSIVE HrefString(_)
\* the href attribute as a string
HrefString(href) ==
  IF href = <<>> THEN <<>> ELSE <<"/">> \o Head(href) \o HrefString(Tail(href))

\* items with no metadata and no raw row
LinkItem(id, text, url) ==
  [id |-> id,
   title |-> IF Truthy(Trim(text)) THEN Trim(text) ELSE TitlePrefix \o id,
   url |-> url,
   state |-> UNDEF, office |-> UNDEF, nepaStatus |-> UNDEF, nepaType |-> UNDEF,
   raw |-> EmptyRow]

\* /href="(\/eplanning-ui\/project\/(\d+)\/510)"[^>]*>([^<]+)<\/a>/gi
LinkReMatches(a) ==
  /\ Len(a.href) = 4
  /\ a.href[1] = <<"eplanning-ui">>
  /\ a.href[2] = <<"project">>
  /\ AllDigits(a.href[3])
  /\ a.href[4] = S510
  /\ a.text # <<>>

RECURSIVE ExtractLinks(_)
\* the while loop of fetchKeywordViaHtml over the anchors of the body
ExtractLinks(anchors) ==
  IF anchors = <<>> THEN <<>>
  ELSE LET a == Head(anchors)
       IN (IF LinkReMatches(a)
           THEN <<LinkItem(a.href[3], a.text, Host \o HrefString(a.href))>>
           ELSE <<>>) \o ExtractLinks(Tail(anchors))

\* a[href^="/eplanning-ui/project/"][href$="/510"]
SelectorMatches(a) ==
  /\ Len(a.href) >= 3
  /\ a.href[1] = <<"eplanning-ui">>
  /\ a.href[2] = <<"project">>
  /\ a.href[Len(a.href)] = S510

\* url.match(/\/project\/(\d+)\/510/): the positions i where the segment
\* "project" is followed by an all-digit segment and one beginning with 510
ProjectReAt(href) ==
  {i \in 1..(Len(href) - 2) :
     /\ href[i] = <<"project">>
     /\ AllDigits(href[i + 1])
     /\ StartsWith(href[i + 2], S510)}

Min(S) == CHOOSE x \in S : \A y \in S : x <= y

RECURSIVE MapAnchors(_)
\* items.map(...).filter(Boolean) of scrapeSearchTerm
MapAnchors(anchors) ==
  IF anchors = <<>> THEN <<>>
  ELSE LET a == Head(anchors)
           at == ProjectReAt(a.href)
       IN (IF SelectorMatches(a) /\ at # {}
           THEN <<LinkItem(a.href[Min(at) + 1], a.text, Host \o HrefString(a.href))>>
           ELSE <<>>) \o MapAnchors(Tail(anchors))

\* ------------------------------------------------------------ state partition
RECURSIVE Split(_, _)
\* String.prototype.split on a one-character separator
Split(s, sep) ==
  IF \A i \in 1..Len(s) : s[i] # sep THEN <<s>>
  ELSE LET i == Min({j \in 1..Len(s) : s[j] = sep})
       IN <<SubSeq(s, 1, i - 1)>> \o Split(SubSeq(s, i + 1, Len(s)), sep)

RECURSIVE MapTrim(_)
MapTrim(arr) == IF arr = <<>> THEN <<>> ELSE <<Trim(Head(arr))>> \o MapTrim(Tail(arr))

\* (r.state || '').split(',').map(s => s.trim()).filter(Boolean)
StateTokens(r) ==
  FilterTruthy(MapTrim(Split(IF Truthy(r.state) THEN r.state ELSE <<>>, ",")))

\* byState is the Map in insertion order: a sequence of [st, items]
HasLabel(byS, st) == \E i \in 1..Len(byS) : byS[i].st = st

\* if (!byState.has(st)) byState.set(st, []); byState.get(st).push(r)
PushToLabel(byS, st, r) ==
  IF HasLabel(byS, st)
  THEN [i \in 1..Len(byS) |->
          IF byS[i].st = st THEN [byS[i] EXCEPT !.items = Append(@, r)] ELSE byS[i]]
  ELSE Append(byS, [st |-> st, items |-> <<r>>])

RECURSIVE PushTokens(_, _, _)
PushTokens(byS, tokens, r) ==
  IF tokens = <<>> THEN byS
  ELSE PushTokens(PushToLabel(byS, Head(tokens), r), Tail(tokens), r)

RECURSIVE Partition(_, _)
\* for (const r of merged) { ... } building byState
Partition(byS, records) ==
  IF records = <<>> THEN byS
  ELSE Partition(PushTokens(byS, StateTokens(Head(records)), Head(records)),
                 Tail(records))

LowerCase == <<"a", "b", "c", "d", "e", "f", "g", "h", "i", "j", "k", "l", "m",
               "n", "o", "p", "q", "r", "s", "t", "u", "v", "w", "x", "y", "z">>
UpperCase == <<"A", "B", "C", "D", "E", "F", "G", "H", "I", "J", "K", "L", "M",
               "N", "O", "P", "Q", "R", "S", "T", "U", "V", "W", "X", "Y", "Z">>
UpperChar(c) ==
  IF \E i \in 1..Len(LowerCase) : LowerCase[i] = c
  THEN UpperCase[CHOOSE i \in 1..Len(LowerCase) : LowerCase[i] = c]
  ELSE c

RECURSIVE FileName(_)
\* st.toUpperCase().replace(/[^A-Z]/g, '')
FileName(st) ==
  IF st = <<>> THEN <<>>
  ELSE LET c == UpperChar(Head(st))
       IN (IF \E i \in 1..Len(UpperCase) : UpperCase[i] = c THEN <<c>> ELSE <<>>)
          \o FileName(Tail(st))

OutMain == <<"docs/index.xml">>
\* path.join(OUT_STATE_DIR, `${fname}.xml`)
StatePath(st) == <<"docs/by-state/">> \o FileName(st) \o <<".xml">>

RECURSIVE StateWrites(_)
\* for (const [st, items] of byState.entries()) writeRss(fpath, ..., items)
StateWrites(byS) ==
  IF byS = <<>> THEN <<>>
  ELSE <<[path |-> StatePath(Head(byS).st), label |-> Head(byS).st,
          items |-> Head(byS).items]>> \o StateWrites(Tail(byS))

\* ------------------------------------------------------------ configuration
\* A query of feeds/queries.json
Query(text, perState) == [searchText |-> text, perState |-> perState]

\* the terms one query is searched with, in order
QueryTerms(q, sts) ==
  IF ~Truthy(q.searchText) THEN <<>>
  ELSE IF q.perState /\ Len(sts) > 0
       THEN [i \in 1..Len(sts) |-> Trim(q.searchText \o <<" ">> \o sts[i])]
       ELSE <<q.searchText>>

RECURSIVE AllTerms(_, _)
\* for (const q of queries) ...
AllTerms(qs, sts) ==
  IF qs = <<>> THEN <<>> ELSE QueryTerms(Head(qs), sts) \o AllTerms(Tail(qs), sts)

\* A search of feeds/searches.json: advSearch is s.advSearch, urlAdv is what
\* parseAdvFromUrl(s.url || s.link || s.href) returns (UNDEF for null).
Search(advSearch, urlAdv) == [advSearch |-> advSearch, urlAdv |-> urlAdv]

\* const adv = s.advSearch || parseAdvFromUrl(...)
SearchAdv(s) == IF Truthy(s.advSearch) THEN s.advSearch ELSE s.urlAdv

RECURSIVE AllSearches(_)
\* for (const s of searches) { ...; if (!adv) continue; ... }
AllSearches(ss) ==
  IF ss = <<>> THEN <<>>
  ELSE (IF Truthy(SearchAdv(Head(ss))) THEN <<SearchAdv(Head(ss))>> ELSE <<>>)
       \o AllSearches(Tail(ss))

\* ------------------------------------------------------------ merging
\* A faulty MergeStep (last occurrence wins): a later record with a known id
\* replaces the merged one.
MergeStepLastWins(acc, key, r) ==
  IF key \in acc.seen
  THEN [acc EXCEPT !.merged =
          [i \in 1..Len(acc.merged) |->
             IF acc.merged[i].id = r.id THEN r ELSE acc.merged[i]]]
  ELSE [merged |-> Append(acc.merged, r), seen |-> acc.seen \cup {key}]

\* if (seen.has(key)) continue; seen.add(key); merged.push(r)
MergeStep(acc, key, r) ==
  IF key \in acc.seen THEN acc
  ELSE [merged |-> Append(acc.merged, r), seen |-> acc.seen \cup {key}]

\* the key of the keyword and advanced-search scripts
IdKey(r) == r.id
\* the key of the rendered-DOM script: `${r.id}|${r.url}`
IdUrlKey(r) == r.id \o <<"|">> \o r.url

RECURSIVE MergeRows(_, _, _)
\* for (const r of rows) ...
MergeRows(acc, rows, byUrl) ==
  IF rows = <<>> THEN acc
  ELSE MergeRows(
         MergeStep(acc, IF byUrl THEN IdUrlKey(Head(rows)) ELSE IdKey(Head(rows)),
                   Head(rows)),
         Tail(rows), byUrl)

\* ------------------------------------------------------------ upstream
\* What a request is answered with.  err: the fetch / navigation rejected
\* (transport failure); ok: res.ok; ct: the content-type header ("" when
\* absent); parses: res.json() succeeds; data: the parsed payload; anchors:
\* the anchors of an HTML body or rendered page, in document order.
Response(err, ok, ct, parses, data, anchors) ==
  [err |-> err, ok |-> ok, ct |-> ct, parses |-> parses, data |-> data,
   anchors |-> anchors]

TransportFailure == Response(TRUE, FALSE, "", FALSE, ObjectData, <<>>)
JsonResponse(data) == Response(FALSE, TRUE, "application/json", TRUE, data, <<>>)
BadJsonResponse ==
  Response(FALSE, TRUE, "application/json; charset=utf-8", FALSE, ObjectData, <<>>)
HtmlResponse(anchors) == Response(FALSE, TRUE, "text/html", FALSE, ObjectData, anchors)
NoTypeResponse == Response(FALSE, TRUE, "", FALSE, ObjectData, <<>>)
NotOkResponse == Response(FALSE, FALSE, "text/html", FALSE, ObjectData, <<>>)

\* the content types that contain application/json
JsonTypes == {"application/json", "application/json; charset=utf-8"}

\* A faulty UsesJson: a JSON payload that yields no row is not used.
UsesJsonWithRows(r) ==
  /\ r.ct \in JsonTypes
  /\ (r.parses /\ ~normalizeRowsThrows(r.data)) => normalizeRows(r.data) # <<>>

\* ct.includes('application/json')
UsesJson(r) == r.ct \in JsonTypes

\* ------------------------------------------------------------ inputs
NV == <<"N", "V">>
UT == <<"U", "T">>
RowNV == [EmptyRow EXCEPT !.projectId = <<"1", "0", "0">>, !.state = NV,
                          !.projectName = <<"A">>]
RowUT == [EmptyRow EXCEPT !.projectId = <<"2", "0", "0">>, !.state = UT]
\* the id of RowNV with another url and a repeated state
RowDup == [EmptyRow EXCEPT !.id = <<"1", "0", "0">>, !.url = <<"u">>,
                           !.states = <<NV, UT, NV>>]
\* the state "nv, 12"
RowLower == [EmptyRow EXCEPT !.id = Num(<<"3">>),
                             !.state = <<"n", "v", ",", " ", "1", "2">>]
RowNoId == [EmptyRow EXCEPT !.url = <<"u">>, !.title = <<"x">>]

JsonBodies ==
  { ArrayData(<<RowNV>>),
    [ObjectData EXCEPT !.items = Arr(<<RowDup, RowLower>>)],
    [ObjectData EXCEPT !.content = Arr(<<RowNoId, RowUT>>)],
    ObjectData,
    NullData }

Anchor(href, text) == [href |-> href, text |-> text]
ProjectHref(id) == << <<"eplanning-ui">>, <<"project">>, id, S510 >>
Anchor42 == Anchor(ProjectHref(<<"4", "2">>), <<"D", "T">>)
\* /eplanning-ui/project/42/510/510
Anchor42Deep == Anchor(ProjectHref(<<"4", "2">>) \o <<S510>>, <<"D">>)
Anchor100 == Anchor(ProjectHref(<<"1", "0", "0">>), <<" ">>)
AnchorHome == Anchor(<< <<"eplanning-ui">>, <<"h", "o", "m", "e">> >>, <<"H">>)

Pages ==
  { <<>>,
    <<Anchor42, Anchor42Deep>>,
    <<Anchor100, AnchorHome, Anchor42>> }

StructuredResponses ==
  {BadJsonResponse, HtmlResponse(<<>>), NoTypeResponse}
    \cup {JsonResponse(d) : d \in JsonBodies}
PageResponses == {HtmlResponse(a) : a \in Pages}
AdvResponses == {BadJsonResponse, NotOkResponse} \cup {JsonResponse(d) : d \in JsonBodies}

Queries ==
  { Query(<<>>, FALSE), Query(<<"s">>, TRUE), Query(<<"s">>, FALSE),
    Query(<<" ", "s">>, FALSE), Query(<<" ">>, TRUE) }
StateLists == { <<>>, <<NV, UT>> }
Searches ==
  { Search(<<"a">>, UNDEF), Search(UNDEF, <<"b">>), Search(UNDEF, UNDEF) }

\* sequences over S of length at most n
SeqsUpTo(S, n) == UNION {[1..k -> S] : k \in 0..n}

Variants == {"dom", "keyword", "adv"}

\* ------------------------------------------------------------ state
VARIABLES
  variant,    \* which of the three scripts runs
  queries,    \* cfg.queries
  states,     \* cfg.states
  searches,   \* feeds/searches.json
  done,       \* terms (searches) whose retrieval has ended
  pc,         \* where run() is suspended
  merged,     \* const merged = []
  seen,       \* const seen = new Set()
  retrieved,  \* every record handed to a merge loop so far, in order
  requests,   \* the requests issued so far
  responses,  \* the answers received so far, responses[i] answering requests[i]
  byState,    \* const byState = new Map(), in insertion order
  writes,     \* the writeRss calls so far
  summary,    \* total of last-run.json, -1 while not written
  exitCode,   \* process exit status, -1 while running
  ndata,      \* the argument of a normalizeRows call
  nout        \* what that call returned

vars == <<variant, queries, states, searches, done, pc, merged, seen, retrieved,
          requests, responses, byState, writes, summary, exitCode, ndata, nout>>

config == <<variant, queries, states, searches>>
output == <<byState, writes, summary, exitCode>>
normalizer == <<ndata, nout>>

\* the terms (advanced searches) the run retrieves, in order
Terms ==
  IF variant = "adv" THEN AllSearches(searches) ELSE AllTerms(queries, states)

Init ==
  /\ variant \in Variants
  /\ queries \in SeqsUpTo(Queries, MaxQueries)
  /\ states \in StateLists
  /\ searches \in SeqsUpTo(Searches, MaxQueries)
  /\ IF variant = "adv" THEN queries = <<>> /\ states = <<>> ELSE searches = <<>>
  \* configurations whose run retrieves at most MaxTerms terms
  /\ Len(Terms) <= MaxTerms
  /\ done = 0
  /\ pc = "loop"
  /\ merged = <<>>
  /\ seen = {}
  /\ retrieved = <<>>
  /\ requests = <<>>
  /\ responses = <<>>
  /\ byState = <<>>
  /\ writes = <<>>
  /\ summary = -1
  /\ exitCode = -1
  /\ ndata = ObjectData
  /\ nout = <<>>

\* ------------------------------------------------------------ run()
Request(kind, n) == [kind |-> kind, term |-> Terms[n], n |-> n]

\* the loop reaches the next term and issues its first request
StartTerm ==
  /\ pc = "loop"
  /\ done < Len(Terms)
  /\ requests' = Append(requests,
       Request(IF variant = "dom" THEN "dom" ELSE "structured", done + 1))
  /\ pc' = (IF variant = "dom" THEN "awaitDom"
            ELSE IF variant = "keyword" THEN "awaitStructured" ELSE "awaitAdv")
  /\ UNCHANGED <<config, done, merged, seen, retrieved, responses, output, normalizer>>

\* run() rejects: run().catch logs and calls process.exit(1)
Abort ==
  /\ pc' = "exited"
  /\ exitCode' = 1
  /\ UNCHANGED <<config, done, merged, seen, retrieved, requests, byState, writes,
                 summary, normalizer>>

\* the rows of one term are folded into merged, and the loop goes on
Fold(rows, byUrl) ==
  LET acc == MergeRows([merged |-> merged, seen |-> seen], rows, byUrl)
  IN /\ merged' = acc.merged
     /\ seen' = acc.seen
     /\ retrieved' = retrieved \o rows
     /\ done' = done + 1
     /\ pc' = "loop"
     /\ UNCHANGED <<config, requests, output, normalizer>>

\* A faulty TransportError: the term is skipped and the loop goes on.
TransportErrorSkipsTerm ==
  /\ pc \in {"awaitStructured", "awaitMarkup", "awaitDom", "awaitAdv"}
  /\ responses' = Append(responses, TransportFailure)
  /\ Fold(<<>>, FALSE)

\* fetch() or page.goto() rejects; nothing in run() catches it
TransportError ==
  /\ pc \in {"awaitStructured", "awaitMarkup", "awaitDom", "awaitAdv"}
  /\ responses' = Append(responses, TransportFailure)
  /\ Abort

\* keyword script: the POST is answered with a JSON content type
StructuredJson ==
  /\ pc = "awaitStructured"
  /\ \E r \in StructuredResponses :
       /\ UsesJson(r)
       /\ responses' = Append(responses, r)
       /\ IF ~r.parses \/ normalizeRowsThrows(r.data)
          THEN Abort
          ELSE Fold(normalizeRows(r.data), FALSE)

\* keyword script: any other content type: the HTML page is requested
StructuredFallback ==
  /\ pc = "awaitStructured"
  /\ \E r \in StructuredResponses :
       /\ ~UsesJson(r)
       /\ responses' = Append(responses, r)
       /\ requests' = Append(requests, Request("markup", done + 1))
       /\ pc' = "awaitMarkup"
  /\ UNCHANGED <<config, done, merged, seen, retrieved, output, normalizer>>

\* keyword script: the HTML page arrives and its links are extracted
MarkupBody ==
  /\ pc = "awaitMarkup"
  /\ \E r \in PageResponses :
       /\ responses' = Append(responses, r)
       /\ Fold(ExtractLinks(r.anchors), FALSE)

\* rendered-DOM script: the page is rendered and its anchors are scraped
DomPage ==
  /\ pc = "awaitDom"
  /\ \E r \in PageResponses :
       /\ responses' = Append(responses, r)
       /\ Fold(MapAnchors(r.anchors), TRUE)

\* advanced-search script: the POST is answered
AdvAnswer ==
  /\ pc = "awaitAdv"
  /\ \E r \in AdvResponses :
       /\ responses' = Append(responses, r)
       /\ IF ~r.ok THEN Fold(<<>>, FALSE)
          ELSE IF ~r.parses \/ normalizeRowsThrows(r.data) THEN Abort
          ELSE Fold(normalizeRows(r.data), FALSE)

MainWrite == [path |-> OutMain, label |-> <<>>, items |-> merged]

\* every term is done: the feeds and last-run.json are written
Finish ==
  /\ pc = "loop"
  /\ done = Len(Terms)
  /\ byState' = (IF variant = "dom" THEN <<>> ELSE Partition(<<>>, merged))
  /\ writes' = <<MainWrite>> \o StateWrites(byState')
  /\ summary' = Len(merged)
  /\ exitCode' = 0
  /\ pc' = "done"
  /\ UNCHANGED <<config, done, merged, seen, retrieved, requests, responses, normalizer>>

Next ==
  \/ StartTerm
  \/ TransportError
  \/ StructuredJson
  \/ StructuredFallback
  \/ MarkupBody
  \/ DomPage
  \/ AdvAnswer
  \/ Finish

Spec == Init /\ [][Next]_vars

\* ------------------------------------------------------------ normalizeRows alone
IdValues == {UNDEF, <<>>, <<" ">>, <<"7">>, <<" ", "7", " ">>, Num(<<"0">>)}
ProjectIdValues == {UNDEF, <<>>, <<"8">>, <<" ", "8">>, Num(<<"0">>)}
UrlValues == {UNDEF, <<>>, <<"u">>}
\* the identity fields after projectId: none, or a blank documentId before a
\* nepaNumber
LaterIds ==
  { EmptyRow, [EmptyRow EXCEPT !.documentId = <<" ">>, !.nepaNumber = <<"9">>] }

NormalizeRows ==
  { [rest EXCEPT !.id = a, !.projectId = b, !.url = u] :
      rest \in LaterIds, a \in IdValues, b \in ProjectIdValues, u \in UrlValues }

\* the payload shapes a row list arrives in
Shapes == {"array", "items", "content", "results", "data", "none"}
Shaped(shape, rows) ==
  IF shape = "array" THEN ArrayData(rows)
  ELSE IF shape = "items" THEN [ObjectData EXCEPT !.items = Arr(rows)]
  ELSE IF shape = "content" THEN [ObjectData EXCEPT !.content = Arr(rows)]
  ELSE IF shape = "results" THEN [ObjectData EXCEPT !.results = Arr(rows)]
  ELSE IF shape = "data" THEN [ObjectData EXCEPT !.data = Arr(rows)]
  ELSE [ObjectData EXCEPT !.rows = rows]

InitNormalize ==
  /\ variant = "keyword"
  /\ queries = <<>>
  /\ states = <<>>
  /\ searches = <<>>
  /\ done = 0
  /\ pc = "normalize"
  /\ merged = <<>>
  /\ seen = {}
  /\ retrieved = <<>>
  /\ requests = <<>>
  /\ responses = <<>>
  /\ byState = <<>>
  /\ writes = <<>>
  /\ summary = -1
  /\ exitCode = -1
  /\ \/ ndata = NullData
     \/ \E shape \in Shapes, rows \in SeqsUpTo(NormalizeRows, MaxRows) :
          ndata = Shaped(shape, rows)
  /\ nout = <<>>

\* normalizeRows(data) returns
NormalizeReturns ==
  /\ pc = "normalize"
  /\ ~normalizeRowsThrows(ndata)
  /\ nout' = normalizeRows(ndata)
  /\ pc' = "normalized"
  /\ UNCHANGED <<config, done, merged, seen, retrieved, requests, responses, output,
                 ndata>>

\* normalizeRows(null) raises
NormalizeThrows ==
  /\ pc = "normalize"
  /\ normalizeRowsThrows(ndata)
  /\ pc' = "threw"
  /\ UNCHANGED <<config, done, merged, seen, retrieved, requests, responses, output,
                 normalizer>>

NextNormalize == NormalizeReturns \/ NormalizeThrows

SpecNormalize == InitNormalize /\ [][NextNormalize]_vars

\* ------------------------------------------------------------ properties
Range(seq) == {seq[i] : i \in 1..Len(seq)}
Failed == \E i \in 1..Len(responses) : responses[i].err

\* C1: in every variant of the pipeline, no two records of the merged set
\* have the same id (records that share an id and differ in url collapse to
\* one entry).
C1_MergedIdsUnique ==
  \A i, j \in 1..Len(merged) : i # j => merged[i].id # merged[j].id

RECURSIVE FirstById(_, _)
\* the first occurrence of each id in rows, ids of `known` left out
FirstById(rows, known) ==
  IF rows = <<>> THEN <<>>
  ELSE IF Head(rows).id \in known THEN FirstById(Tail(rows), known)
  ELSE <<Head(rows)>> \o FirstById(Tail(rows), known \cup {Head(rows).id})

IdentityFields(p) ==
  <<p.id, p.projectId, p.nepaId, p.documentId, p.projectID, p.nepaNumber>>
NoIdentity(p) == \A k \in 1..6 : IdentityFields(p)[k] = UNDEF
FirstIdentityBlank(p) ==
  \E k \in 1..6 :
     /\ IdentityFields(p)[k] # UNDEF
     /\ \A l \in 1..(k - 1) : IdentityFields(p)[l] = UNDEF
     /\ ~IsNum(IdentityFields(p)[k])
     /\ \A c \in Range(IdentityFields(p)[k]) : c = " "

\* C3: every record normalizeRows returns has a non-empty id and a non-empty
\* url; a row with no identity field, or whose first non-null identity field
\* is blank, is dropped even when it carries a url, and so is a row whose
\* explicit url is empty.
C3_NoIdlessRecord ==
  pc = "normalized" =>
    /\ \A x \in Range(nout) :
         /\ x.id \notin {UNDEF, <<>>}
         /\ x.url \notin {UNDEF, <<>>}
    /\ \A p \in Range(RowList(ndata)) :
         (NoIdentity(p) \/ FirstIdentityBlank(p) \/ p.url = <<>>) =>
           \A x \in Range(nout) : x.raw # p

\* a row with a url and a blank first identity field (later ones present)
\* was normalised away
C3_Witness ==
  /\ pc = "normalized"
  /\ nout = <<>>
  /\ \E p \in Range(RowList(ndata)) :
       /\ p.url = <<"u">>
       /\ p.id = <<" ">>
       /\ p.projectId = <<"8">>

\* a payload declared as JSON that does not parse, is null, or is an object
\* with no row list
Malformed(r) ==
  \/ ~r.parses
  \/ r.data.kind = "null"
  \/ /\ r.data.kind = "object"
     /\ ~r.data.items.arr /\ ~r.data.content.arr
     /\ ~r.data.results.arr /\ ~r.data.data.arr

\* C4: when the structured request of a term is answered with a malformed
\* JSON payload, the keyword script falls back to the markup request for
\* that term and the run is not terminated.
C4_MalformedFallsBack ==
  variant = "keyword" =>
    \A i \in 1..Len(responses) :
       (/\ requests[i].kind = "structured"
        /\ ~responses[i].err
        /\ responses[i].ct \in JsonTypes
        /\ Malformed(responses[i])) =>
         /\ pc # "exited"
         /\ i < Len(requests)
         /\ requests[i + 1].kind = "markup"
         /\ requests[i + 1].n = requests[i].n

\* C5 as stated: a transport error aborts only its term; the run goes on
\* (it is never terminated by the error).
C5_ErrorAbortsOnlyTerm == Failed => pc # "exited"

\* C5 as amended: a transport error raised while retrieving a term ends the
\* whole run: the process exits with status 1, the failed request is the last
\* one issued (no later term or query is retrieved), and neither a feed nor
\* the run summary is written, so the records merged so far are lost.
C5_ErrorEndsRun ==
  Failed =>
    /\ pc = "exited"
    /\ exitCode = 1
    /\ responses[Len(responses)].err
    /\ Len(requests) = Len(responses)
    /\ writes = <<>>
    /\ byState = <<>>
    /\ summary = -1

\* the second term fails after the first one merged records
C5_Witness ==
  /\ Failed
  /\ merged # <<>>
  /\ done = 1
  /\ Len(requests) >= 2

Count(x, seq) == Cardinality({i \in 1..Len(seq) : seq[i] = x})
ItemsOf(st) ==
  IF HasLabel(byState, st)
  THEN byState[CHOOSE i \in 1..Len(byState) : byState[i].st = st].items
  ELSE <<>>

\* C6: after partitioning, every merged record is exactly once in the
\* sub-list of each distinct trimmed non-empty token of its state and in no
\* other sub-list, and the national feed lists every merged record once.
C6_OncePerDistinctToken ==
  (pc = "done" /\ variant # "dom") =>
    \A r \in Range(merged) :
       /\ \A st \in Range(StateTokens(r)) \cup {byState[i].st : i \in 1..Len(byState)} :
            Count(r, ItemsOf(st)) = (IF st \in Range(StateTokens(r)) THEN 1 ELSE 0)
       /\ Count(r, writes[1].items) = 1

\* the terms C7 states for one query
C7_ExpectedTerms(q, sts) ==
  IF q.searchText = <<>> THEN <<>>
  ELSE IF q.perState /\ sts # <<>>
       THEN [i \in 1..Len(sts) |-> Trim(q.searchText \o <<" ">> \o sts[i])]
       ELSE <<Trim(q.searchText)>>

RECURSIVE C7_AllExpected(_, _)
C7_AllExpected(qs, sts) ==
  IF qs = <<>> THEN <<>>
  ELSE C7_ExpectedTerms(Head(qs), sts) \o C7_AllExpected(Tail(qs), sts)

RECURSIVE FirstRequests(_)
\* the term of each term's first request, in order
FirstRequests(reqs) ==
  IF reqs = <<>> THEN <<>>
  ELSE (IF Head(reqs).kind \in {"structured", "dom"} THEN <<Head(reqs).term>> ELSE <<>>)
       \o FirstRequests(Tail(reqs))

\* C7: the terms submitted for the configured queries are: none for an empty
\* searchText, one trimmed "{searchText} {state}" per state when perState is
\* set and states are configured, otherwise the trimmed searchText.
C7_TermsAsSpecified ==
  (pc = "done" /\ variant # "adv") =>
    FirstRequests(requests) = C7_AllExpected(queries, states)

RequestsOf(n, kind) ==
  {i \in 1..Len(requests) : requests[i].n = n /\ requests[i].kind = kind}

\* C8: in the keyword script every term gets exactly one structured request;
\* the markup request is issued at most once, directly after the structured
\* answer arrived without a JSON content type; a structured answer with a
\* JSON content type is followed by no markup request; no request is repeated.
C8_OneAttemptPerStrategy ==
  variant = "keyword" =>
    /\ \A i \in 1..Len(requests) : requests[i].kind \in {"structured", "markup"}
    /\ \A i \in 1..(Len(requests) - 1) : requests[i].n <= requests[i + 1].n
    /\ \A n \in 1..Len(Terms) :
         /\ Cardinality(RequestsOf(n, "structured")) =
              (IF n <= done \/ (n = done + 1 /\ pc \notin {"loop", "done"}) THEN 1 ELSE 0)
         /\ Cardinality(RequestsOf(n, "markup")) <= 1
         /\ \A m \in RequestsOf(n, "markup") :
              /\ m > 1
              /\ requests[m - 1].kind = "structured"
              /\ requests[m - 1].n = n
              /\ ~responses[m - 1].err
              /\ responses[m - 1].ct \notin JsonTypes
         /\ \A k \in RequestsOf(n, "structured") :
              (k <= Len(responses) /\ responses[k].ct \in JsonTypes) =>
                RequestsOf(n, "markup") = {}

\* a finished keyword run in which one term was served by JSON (with no row)
\* and another by the markup fallback
C8_Witness ==
  /\ variant = "keyword"
  /\ pc = "done"
  /\ \E i \in 1..Len(requests) : requests[i].kind = "markup"
  /\ \E i \in 1..Len(responses) :
       /\ requests[i].kind = "structured"
       /\ responses[i].ct \in JsonTypes
       /\ normalizeRows(responses[i].data) = <<>>

\* C9 as stated: a record made from a row without url has the project URL of
\* its own id.
C9_UrlFromId ==
  pc = "normalized" =>
    \A x \in Range(nout) : x.raw.url = UNDEF => x.url = ProjectUrl(x.id)

\* C9 as amended: a record made from a row without url has the project URL
\* of the row's projectId as it stands (untrimmed) whenever projectId is
\* truthy, and the project URL of its own id only otherwise.
C9_UrlFromProjectIdFirst ==
  pc = "normalized" =>
    \A x \in Range(nout) :
       x.raw.url = UNDEF =>
         x.url = Host \o <<"/", "eplanning-ui", "/", "project", "/">>
                   \o (IF x.raw.projectId \notin {UNDEF, <<>>, Num(<<"0">>)}
                       THEN JsString(x.raw.projectId) ELSE x.id)
                   \o <<"/", "5", "1", "0">>

\* a row with id 7, projectId 8 and no url became a record
C9_Witness ==
  /\ pc = "normalized"
  /\ \E x \in Range(nout) :
       /\ x.raw.url = UNDEF
       /\ x.raw.id = <<"7">>
       /\ x.raw.projectId = <<"8">>
       /\ x.id = <<"7">>

\* the items of the file at path after the run: those of the last write to it
FileItems(path) ==
  LET ws == {i \in 1..Len(writes) : writes[i].path = path}
  IN writes[CHOOSE i \in ws : \A j \in ws : j <= i].items

\* C10: after a completed run every state label of the partition map has
\* its own document holding exactly its partition: no label derives an empty
\* file name and no two labels derive the same one.
C10_OneDocumentPerLabel ==
  pc = "done" =>
    \A i \in 1..Len(byState) :
       /\ FileName(byState[i].st) # <<>>
       /\ FileItems(StatePath(byState[i].st)) = byState[i].items
       /\ \A j \in 1..Len(byState) :
            i # j => FileName(byState[i].st) # FileName(byState[j].st)

====
